---- MODULE Spec2Model ----
(***************************************************************************)
(* Sentiment scoring and ensemble pipeline of the Multi-Platform Sentiment *)
(* Analyzer: TextPreprocessor, VaderAnalyzer, RobertaAnalyzer and          *)
(* SentimentPipeline (src/analyzers).                                      *)
(*                                                                         *)
(* Python strings are sequences of one-character strings.  Python values   *)
(* that may stand where a text is expected carry their type.  A call ends  *)
(* in an outcome: a returned value or a raised exception.                  *)
(***************************************************************************)
EXTENDS Integers, Sequences, FiniteSets, TLC

VARIABLES
    text,       \* preprocess: the text argument (a Python value)
    platform,   \* preprocess: the platform argument
    outcome,    \* preprocess: Pending before the call, then its outcome
    scores,     \* VaderAnalyzer.analyze: what polarity_scores gave for the text
    analysis,   \* VaderAnalyzer.analyze: Pending, then its outcome
    row,        \* _ensemble_label, _ensemble_score: the row argument
    resolved,   \* the resolver: Pending, then the outcome of both calls
    roberta,    \* SentimentPipeline.roberta: "None" or "loaded"
    warned,     \* the warning of __init__ has been logged
    pc,         \* analyze_dataframe: the step the call is at
    input,      \* analyze_dataframe: the DataFrame of the caller
    df,         \* analyze_dataframe: the working copy, later the result
    lexicon,    \* what polarity_scores answers, per text scored so far
    weights,    \* what the frozen model answers, per text scored so far
    construct,  \* SentimentPipeline(use_roberta), and whether the model loads
    texts,      \* analyze_batch: the texts argument
    batch_size, \* analyze_batch: the batch_size argument
    batch_i,    \* analyze_batch: i, the start of the next chunk
    results,    \* analyze_batch: the results appended so far
    inferences, \* the batches the model was called with, in call order
    batch,      \* analyze_batch: Pending, then its outcome
    single,     \* RobertaAnalyzer.analyze: Pending, then its outcome
    history,    \* the finished analyze_dataframe calls of the pipeline
    limit,      \* RedditCollector.collect: the limit argument
    rows,       \* collect: len(rows)
    after,      \* collect: the page token, "None" or a token
    status,     \* collect: how the last request ended, a status or "raised"
    collect_pc, \* collect: the statement the call is at
    collected   \* collect: the number of rows returned, -1 before the return

preVars == <<text, platform, outcome>>
vaderVars == <<scores, analysis>>
ensVars == <<row, resolved>>
pipeVars == <<roberta, warned, pc, input, df, lexicon, weights, construct>>
batchVars == <<texts, batch_size, batch_i, results, inferences, batch, single>>
runVars == <<history>>
redditVars == <<limit, rows, after, status, collect_pc, collected>>
vars == <<preVars, vaderVars, ensVars, pipeVars, batchVars, runVars, redditVars>>

----------------------------------------------------------------------------
(* Python values and call outcomes *)

PyStr(s) == [type |-> "str", val |-> s]
PyNone == [type |-> "NoneType", val |-> <<>>]
PyNaN == [type |-> "float", val |-> <<>>]

isinstance_str(v) == v.type = "str"

Return(v) == [kind |-> "return", val |-> v, exc |-> "none"]
Raise(e) == [kind |-> "raise", val |-> <<>>, exc |-> e]
Pending == [kind |-> "pending", val |-> <<>>, exc |-> "none"]

\* str(x): a str is itself, None prints as None, a float NaN prints as nan
str(v) ==
    IF v.type = "str" THEN v.val
    ELSE IF v.type = "NoneType" THEN <<"N", "o", "n", "e">>
    ELSE <<"n", "a", "n">>

----------------------------------------------------------------------------
(* Character classes of the re module *)

Letters ==
    {"a", "b", "c", "d", "e", "f", "g", "h", "i", "j", "k", "l", "m",
     "n", "o", "p", "q", "r", "s", "t", "u", "v", "w", "x", "y", "z",
     "A", "B", "C", "D", "E", "F", "G", "H", "I", "J", "K", "L", "M",
     "N", "O", "P", "Q", "R", "S", "T", "U", "V", "W", "X", "Y", "Z"}

Digits == {"0", "1", "2", "3", "4", "5", "6", "7", "8", "9"}

\* \w
IsWord(c) == c \in Letters \cup Digits \cup {"_"}

\* \s
IsSpace(c) == c \in {" ", "\t", "\n", "\r", "\f"}

\* \S
IsNonSpace(c) == ~IsSpace(c)

\* the grave accent, which a string of this language cannot hold
Backtick == "grave"

\* the character class of _MARKDOWN_RE
IsMarkdown(c) == c \in {"*", "_", "~", Backtick, ">", "{", "}", "[", "]"}

\* re.IGNORECASE folds the letters the patterns name
Lower(c) ==
    CASE c = "R" -> "r" [] c = "T" -> "t" [] c = "V" -> "v" [] c = "E" -> "e"
      [] c = "I" -> "i" [] c = "F" -> "f" [] c = "D" -> "d" [] c = "P" -> "p"
      [] c = "U" -> "u" [] c = "C" -> "c" [] c = "H" -> "h" [] c = "A" -> "a"
      [] c = "S" -> "s" [] OTHER -> c

\* length of the longest run of word characters of s that starts at i
RECURSIVE WordRun(_, _)
WordRun(s, i) ==
    IF i > Len(s) \/ ~IsWord(s[i]) THEN 0 ELSE 1 + WordRun(s, i + 1)

RECURSIVE NonSpaceRun(_, _)
NonSpaceRun(s, i) ==
    IF i > Len(s) \/ ~IsNonSpace(s[i]) THEN 0 ELSE 1 + NonSpaceRun(s, i + 1)

RECURSIVE SpaceRun(_, _)
SpaceRun(s, i) ==
    IF i > Len(s) \/ ~IsSpace(s[i]) THEN 0 ELSE 1 + SpaceRun(s, i + 1)

RECURSIVE MarkdownRun(_, _)
MarkdownRun(s, i) ==
    IF i > Len(s) \/ ~IsMarkdown(s[i]) THEN 0 ELSE 1 + MarkdownRun(s, i + 1)

\* the literal p stands in s at position i
LiteralAt(s, i, p) ==
    /\ i + Len(p) - 1 <= Len(s)
    /\ \A k \in 1..Len(p) : s[i + k - 1] = p[k]

\* the same, letters compared without case
LiteralAtIgnoreCase(s, i, p) ==
    /\ i + Len(p) - 1 <= Len(s)
    /\ \A k \in 1..Len(p) : Lower(s[i + k - 1]) = Lower(p[k])

\* s[i..], that is s[i-1:] in Python
From(s, i) == IF i > Len(s) THEN <<>> ELSE SubSeq(s, i, Len(s))

----------------------------------------------------------------------------
(* The compiled patterns: the length of the match that starts at position  *)
(* i of s, 0 when the pattern does not match there.                        *)

\* &\w+;
_HTML_ENTITY_RE(s, i) ==
    IF s[i] # "&" THEN 0
    ELSE LET k == WordRun(s, i + 1)
         IN  IF k >= 1 /\ i + 1 + k <= Len(s) /\ s[i + 1 + k] = ";"
             THEN k + 2 ELSE 0

\* a pattern that misses the www form: https?://\S+
_URL_RE_http_only(s, i) ==
    LET p == IF LiteralAt(s, i, <<"h", "t", "t", "p", ":", "/", "/">>) THEN 7
             ELSE IF LiteralAt(s, i, <<"h", "t", "t", "p", "s", ":", "/", "/">>) THEN 8
             ELSE 0
         k == NonSpaceRun(s, i + p)
    IN  IF p > 0 /\ k >= 1 THEN p + k ELSE 0

\* https?://\S+|www\.\S+
_URL_RE(s, i) ==
    LET p == IF LiteralAt(s, i, <<"h", "t", "t", "p", ":", "/", "/">>) THEN 7
             ELSE IF LiteralAt(s, i, <<"h", "t", "t", "p", "s", ":", "/", "/">>) THEN 8
             ELSE IF LiteralAt(s, i, <<"w", "w", "w", ".">>) THEN 4
             ELSE 0
         k == NonSpaceRun(s, i + p)
    IN  IF p > 0 /\ k >= 1 THEN p + k ELSE 0

\* a pattern that takes one word character only: @\w
_MENTION_RE_one_char(s, i) ==
    IF s[i] = "@" /\ WordRun(s, i + 1) >= 1 THEN 2 ELSE 0

\* @\w+
_MENTION_RE(s, i) ==
    IF s[i] = "@" /\ WordRun(s, i + 1) >= 1 THEN 1 + WordRun(s, i + 1) ELSE 0

\* #(\w+)
_HASHTAG_RE(s, i) ==
    IF s[i] = "#" /\ WordRun(s, i + 1) >= 1 THEN 1 + WordRun(s, i + 1) ELSE 0

\* \s+
_WHITESPACE_RE(s, i) == SpaceRun(s, i)

\* the character class without the underscore: [*~`>{}\[\]]+
RECURSIVE _MARKDOWN_RE_no_underscore(_, _)
_MARKDOWN_RE_no_underscore(s, i) ==
    IF i > Len(s) \/ ~IsMarkdown(s[i]) \/ s[i] = "_" THEN 0
    ELSE 1 + _MARKDOWN_RE_no_underscore(s, i + 1)

\* [*_~`>{}\[\]]+
_MARKDOWN_RE(s, i) == MarkdownRun(s, i)

\* the pattern compiled without re.IGNORECASE
_RT_RE_case_sensitive(s, i) ==
    IF i = 1 /\ LiteralAt(s, 1, <<"R", "T">>) /\ SpaceRun(s, 3) >= 1
    THEN 2 + SpaceRun(s, 3) ELSE 0

\* ^RT\s+ with re.IGNORECASE: matches at the start of the text only
_RT_RE(s, i) ==
    IF i = 1 /\ LiteralAtIgnoreCase(s, 1, <<"R", "T">>) /\ SpaceRun(s, 3) >= 1
    THEN 2 + SpaceRun(s, 3) ELSE 0

\* the phrase compiled without re.IGNORECASE
_VERIFIED_RE_case_sensitive(s, i) ==
    IF LiteralAt(s, i, <<"V", "e", "r", "i", "f", "i", "e", "d", " ",
                         "P", "u", "r", "c", "h", "a", "s", "e">>)
    THEN 17 ELSE 0

\* Verified Purchase with re.IGNORECASE
_VERIFIED_RE(s, i) ==
    IF LiteralAtIgnoreCase(s, i, <<"V", "e", "r", "i", "f", "i", "e", "d", " ",
                                   "P", "u", "r", "c", "h", "a", "s", "e">>)
    THEN 17 ELSE 0

----------------------------------------------------------------------------
(* pattern.sub(repl, text): leftmost matches, left to right, not           *)
(* overlapping, each replaced; the text from position i on.                *)

RECURSIVE _HTML_ENTITY_sub(_, _)
_HTML_ENTITY_sub(s, i) ==
    IF i > Len(s) THEN <<>>
    ELSE LET m == _HTML_ENTITY_RE(s, i)
         IN  IF m > 0 THEN <<" ">> \o _HTML_ENTITY_sub(s, i + m)
             ELSE <<s[i]>> \o _HTML_ENTITY_sub(s, i + 1)

RECURSIVE _URL_sub(_, _)
_URL_sub(s, i) ==
    IF i > Len(s) THEN <<>>
    ELSE LET m == _URL_RE(s, i)
         IN  IF m > 0 THEN _URL_sub(s, i + m)
             ELSE <<s[i]>> \o _URL_sub(s, i + 1)

RECURSIVE _RT_sub(_, _)
_RT_sub(s, i) ==
    IF i > Len(s) THEN <<>>
    ELSE LET m == _RT_RE(s, i)
         IN  IF m > 0 THEN _RT_sub(s, i + m)
             ELSE <<s[i]>> \o _RT_sub(s, i + 1)

RECURSIVE _MENTION_sub(_, _)
_MENTION_sub(s, i) ==
    IF i > Len(s) THEN <<>>
    ELSE LET m == _MENTION_RE(s, i)
         IN  IF m > 0 THEN <<"@", "u", "s", "e", "r">> \o _MENTION_sub(s, i + m)
             ELSE <<s[i]>> \o _MENTION_sub(s, i + 1)

RECURSIVE _HASHTAG_sub(_, _)
_HASHTAG_sub(s, i) ==
    IF i > Len(s) THEN <<>>
    ELSE LET m == _HASHTAG_RE(s, i)
         IN  IF m > 0 THEN SubSeq(s, i + 1, i + m - 1) \o _HASHTAG_sub(s, i + m)
             ELSE <<s[i]>> \o _HASHTAG_sub(s, i + 1)

RECURSIVE _MARKDOWN_sub(_, _)
_MARKDOWN_sub(s, i) ==
    IF i > Len(s) THEN <<>>
    ELSE LET m == _MARKDOWN_RE(s, i)
         IN  IF m > 0 THEN _MARKDOWN_sub(s, i + m)
             ELSE <<s[i]>> \o _MARKDOWN_sub(s, i + 1)

RECURSIVE _VERIFIED_sub(_, _)
_VERIFIED_sub(s, i) ==
    IF i > Len(s) THEN <<>>
    ELSE LET m == _VERIFIED_RE(s, i)
         IN  IF m > 0 THEN _VERIFIED_sub(s, i + m)
             ELSE <<s[i]>> \o _VERIFIED_sub(s, i + 1)

RECURSIVE _WHITESPACE_sub(_, _)
_WHITESPACE_sub(s, i) ==
    IF i > Len(s) THEN <<>>
    ELSE LET m == _WHITESPACE_RE(s, i)
         IN  IF m > 0 THEN <<" ">> \o _WHITESPACE_sub(s, i + m)
             ELSE <<s[i]>> \o _WHITESPACE_sub(s, i + 1)

\* str.strip()
RECURSIVE rstrip(_)
rstrip(s) ==
    IF s = <<>> \/ ~IsSpace(s[Len(s)]) THEN s ELSE rstrip(SubSeq(s, 1, Len(s) - 1))

strip(s) == rstrip(From(s, 1 + SpaceRun(s, 1)))

----------------------------------------------------------------------------
(* TextPreprocessor *)

\* the platform-specific rule of preprocess
platform_rule(s, p) ==
    IF p = "twitter" THEN _HASHTAG_sub(_MENTION_sub(_RT_sub(s, 1), 1), 1)
    ELSE IF p = "reddit" THEN _MARKDOWN_sub(s, 1)
    ELSE IF p = "amazon" THEN _VERIFIED_sub(s, 1)
    ELSE s

\* preprocess past its guard: entities, URLs, the platform rule, whitespace
clean(s, p) ==
    LET t1 == _HTML_ENTITY_sub(s, 1)
        t2 == _URL_sub(t1, 1)
        t3 == platform_rule(t2, p)
    IN  strip(_WHITESPACE_sub(t3, 1))

\* preprocess without the isinstance test: None.strip() raises
preprocess_unguarded(t, p) ==
    IF ~isinstance_str(t) THEN Raise("AttributeError")
    ELSE IF strip(t.val) = <<>> THEN Return(<<>>)
    ELSE Return(clean(t.val, p))

preprocess(t, p) ==
    IF ~isinstance_str(t) \/ strip(t.val) = <<>> THEN Return(<<>>)
    ELSE Return(clean(t.val, p))

\* str.split(): the maximal runs of non-whitespace characters, in order
RECURSIVE split(_)
split(s) ==
    LET t == From(s, 1 + SpaceRun(s, 1))
    IN  IF t = <<>> THEN <<>>
        ELSE <<SubSeq(t, 1, NonSpaceRun(t, 1))>> \o split(From(t, NonSpaceRun(t, 1) + 1))

\* " ".join(tokens)
RECURSIVE join(_)
join(tokens) ==
    IF tokens = <<>> THEN <<>>
    ELSE IF Len(tokens) = 1 THEN tokens[1]
    ELSE tokens[1] \o <<" ">> \o join(Tail(tokens))

\* the loop body without the length test: a lone @ becomes @user too
roberta_token_any_at(token) ==
    IF token[1] = "@" THEN <<"@", "u", "s", "e", "r">>
    ELSE IF LiteralAt(token, 1, <<"h", "t", "t", "p">>) THEN <<"h", "t", "t", "p">>
    ELSE token

\* the loop body of preprocess_for_roberta
roberta_token(token) ==
    IF token[1] = "@" /\ Len(token) > 1 THEN <<"@", "u", "s", "e", "r">>
    ELSE IF LiteralAt(token, 1, <<"h", "t", "t", "p">>) THEN <<"h", "t", "t", "p">>
    ELSE token

preprocess_for_roberta(s) ==
    LET tokens == split(s)
    IN  join([k \in 1..Len(tokens) |-> roberta_token(tokens[k])])

----------------------------------------------------------------------------
(* Numbers.  The floats of the program are modelled as exact fractions     *)
(* n/d in lowest terms with d > 0, so that equal numbers are equal values. *)

Abs(x) == IF x < 0 THEN -x ELSE x

RECURSIVE GCD(_, _)
GCD(a, b) == IF b = 0 THEN a ELSE GCD(b, a % b)

Rat(n, d) == LET g == GCD(Abs(n), d) IN [n |-> n \div g, d |-> d \div g]

RatAdd(a, b) == Rat(a.n * b.d + b.n * a.d, a.d * b.d)
RatSub(a, b) == Rat(a.n * b.d - b.n * a.d, a.d * b.d)
RatMul(a, b) == Rat(a.n * b.n, a.d * b.d)
RatHalf(a) == Rat(a.n, a.d * 2)
RatLeq(a, b) == a.n * b.d <= b.n * a.d
RatZero == Rat(0, 1)
RatOne == Rat(1, 1)

----------------------------------------------------------------------------
(* VaderAnalyzer *)

\* _compound_to_label with the thresholds exclusive
_compound_to_label_exclusive(compound) ==
    IF ~RatLeq(compound, Rat(5, 100)) THEN "positive"
    ELSE IF ~RatLeq(Rat(-5, 100), compound) THEN "negative"
    ELSE "neutral"

_compound_to_label(compound) ==
    IF RatLeq(Rat(5, 100), compound) THEN "positive"
    ELSE IF RatLeq(compound, Rat(-5, 100)) THEN "negative"
    ELSE "neutral"

\* VaderAnalyzer.analyze, given what polarity_scores returned for the text
analyze(sc) ==
    [ vader_compound |-> sc.compound,
      vader_positive |-> sc.pos,
      vader_negative |-> sc.neg,
      vader_neutral |-> sc.neu,
      vader_label |-> _compound_to_label(sc.compound) ]

\* what SentimentIntensityAnalyzer.polarity_scores returns: the compound,
\* and the three shares, which nothing in the program computes with
polarity_scores(compound) ==
    [compound |-> compound, pos |-> "pos", neg |-> "neg", neu |-> "neu"]

----------------------------------------------------------------------------
(* RobertaAnalyzer *)

\* config.id2label of the model named by ROBERTA_MODEL
id2label(idx) ==
    IF idx = 0 THEN "negative" ELSE IF idx = 1 THEN "neutral" ELSE "positive"

\* np.argmax: the first index that holds the maximum
argmax(sc) ==
    CHOOSE i \in 0..2 :
        /\ \A j \in 0..2 : RatLeq(sc[j], sc[i])
        /\ \A j \in 0..2 : j < i => sc[j] # sc[i]

\* the dict with the class probabilities read in index order: scores[0] as
\* positive, scores[2] as negative
roberta_result_index_order(sc) ==
    LET label_idx == argmax(sc)
    IN  [ roberta_label |-> id2label(label_idx),
          roberta_score |-> sc[label_idx],
          roberta_positive |-> sc[0],
          roberta_negative |-> sc[2],
          roberta_neutral |-> sc[1] ]

\* the dict analyze and analyze_batch build from one row of softmax output
roberta_result(sc) ==
    LET label_idx == argmax(sc)
    IN  [ roberta_label |-> id2label(label_idx),
          roberta_score |-> sc[label_idx],
          roberta_positive |-> sc[2],
          roberta_negative |-> sc[0],
          roberta_neutral |-> sc[1] ]

\* RobertaAnalyzer.analyze when the inference call returns: the result for
\* the softmax output w of the model for the text
roberta_analyze(t, w) == roberta_result(w[t])

Min(a, b) == IF a <= b THEN a ELSE b

\* the slice that starts one text late: ts[j + 1 : j + size]
slice_off_by_one(ts, j, size) ==
    IF j + 1 >= Len(ts) THEN <<>> ELSE SubSeq(ts, j + 2, Min(j + size, Len(ts)))

\* texts[i : i + batch_size]
slice(ts, j, size) ==
    IF j >= Len(ts) THEN <<>> ELSE SubSeq(ts, j + 1, Min(j + size, Len(ts)))

\* the results of a batch of which only the first is built
batch_results_first_only(b, w) ==
    [k \in 1..Len(b) |-> IF k = 1 THEN roberta_result(w[b[k]]) ELSE <<>>]

\* the results of a batch appended in the reverse order
batch_results_reversed(b, w) ==
    [k \in 1..Len(b) |-> roberta_result(w[b[Len(b) + 1 - k]])]

\* the inner loop of analyze_batch: one result per row of the softmax
\* output of the batch, in order
batch_results(b, w) == [k \in 1..Len(b) |-> roberta_result(w[b[k]])]

----------------------------------------------------------------------------
(* SentimentPipeline: the ensemble resolver *)

\* the resolver with the lexical label winning a disagreement
_ensemble_label_vader_wins(self_roberta, r) ==
    IF self_roberta # "None" /\ "roberta_label" \in DOMAIN r
    THEN r.vader_label
    ELSE r.vader_label

\* the label read off the blended score: above one half positive, below
\* negative, one half neutral
_ensemble_label_from_score(self_roberta, r) ==
    LET vader_norm == RatHalf(RatAdd(r.vader_compound, RatOne))
        final_score ==
            IF self_roberta # "None" /\ "roberta_positive" \in DOMAIN r
            THEN RatAdd(RatMul(Rat(3, 10), vader_norm),
                        RatMul(Rat(7, 10),
                               RatHalf(RatAdd(RatSub(r.roberta_positive,
                                                     r.roberta_negative), RatOne))))
            ELSE vader_norm
    IN  IF 2 * final_score.n > final_score.d THEN "positive"
        ELSE IF 2 * final_score.n < final_score.d THEN "negative"
        ELSE "neutral"

_ensemble_label(self_roberta, r) ==
    IF self_roberta # "None" /\ "roberta_label" \in DOMAIN r
    THEN IF r.vader_label = r.roberta_label THEN r.vader_label
         ELSE r.roberta_label
    ELSE r.vader_label

\* the score left on the scale of the compound, -1..1
_ensemble_score_unscaled(self_roberta, r) ==
    IF self_roberta # "None" /\ "roberta_positive" \in DOMAIN r
    THEN RatAdd(RatMul(Rat(3, 10), r.vader_compound),
                RatMul(Rat(7, 10), RatSub(r.roberta_positive, r.roberta_negative)))
    ELSE r.vader_compound

\* the blend with the two weights exchanged
_ensemble_score_swapped_weights(self_roberta, r) ==
    LET vader_norm == RatHalf(RatAdd(r.vader_compound, RatOne))
    IN  IF self_roberta # "None" /\ "roberta_positive" \in DOMAIN r
        THEN LET roberta_score == RatSub(r.roberta_positive, r.roberta_negative)
                 roberta_norm == RatHalf(RatAdd(roberta_score, RatOne))
             IN  RatAdd(RatMul(Rat(7, 10), vader_norm), RatMul(Rat(3, 10), roberta_norm))
        ELSE vader_norm

\* the blend with the contextual signal left on its scale -1..1
_ensemble_score_raw_signal(self_roberta, r) ==
    LET vader_norm == RatHalf(RatAdd(r.vader_compound, RatOne))
    IN  IF self_roberta # "None" /\ "roberta_positive" \in DOMAIN r
        THEN LET roberta_score == RatSub(r.roberta_positive, r.roberta_negative)
             IN  RatAdd(RatMul(Rat(3, 10), vader_norm), RatMul(Rat(7, 10), roberta_score))
        ELSE vader_norm

_ensemble_score(self_roberta, r) ==
    LET vader_norm == RatHalf(RatAdd(r.vader_compound, RatOne))
    IN  IF self_roberta # "None" /\ "roberta_positive" \in DOMAIN r
        THEN LET roberta_score == RatSub(r.roberta_positive, r.roberta_negative)
                 roberta_norm == RatHalf(RatAdd(roberta_score, RatOne))
             IN  RatAdd(RatMul(Rat(3, 10), vader_norm), RatMul(Rat(7, 10), roberta_norm))
        ELSE vader_norm

\* df[col] = values: the columns of new are set on the row, replacing
\* columns of the same name
SetColumns(r, new) == new @@ r

----------------------------------------------------------------------------
(* SentimentPipeline *)

\* __init__ without the try: a failed load leaves the constructor
__init___uncaught(use_roberta, load_ok) ==
    [ roberta |-> IF use_roberta /\ load_ok THEN "loaded" ELSE "None",
      warned |-> FALSE,
      raised |-> use_roberta /\ ~load_ok ]

\* __init__: the scorer is held when it was asked for and could be loaded;
\* a failed load is caught and logged as a warning
__init__(use_roberta, load_ok) ==
    [ roberta |-> IF use_roberta /\ load_ok THEN "loaded" ELSE "None",
      warned |-> use_roberta /\ ~load_ok,
      raised |-> FALSE ]

\* df.copy() returning the frame of the caller itself
copy_same_object(d) == [frame |-> d, is_new |-> FALSE]

\* df.copy(): a new frame with the same rows
copy(d) == [frame |-> d, is_new |-> TRUE]

\* Step 3 catching the exception of analyze_batch and going on without
\* the contextual columns
step3_outcome_swallowed(b) == "step4"

\* Step 3: analyze_dataframe has no handler around analyze_batch, so its
\* exception leaves analyze_dataframe too
step3_outcome(b) == IF b.kind = "raise" THEN "raised" ELSE "step4"

\* Step 1: the outcome of preprocess for the row
step1_outcome(r) == preprocess(PyStr(str(r.text)), r.platform)

\* Step 1 writing the cleaned text over the text column as well
step1_columns_overwrites_text(r) ==
    [ clean_text |-> step1_outcome(r).val, text |-> PyStr(step1_outcome(r).val) ]

\* Step 1: the column set on the row, df["clean_text"]
step1_columns(r) == [clean_text |-> step1_outcome(r).val]

\* Step 2: the lexical columns of the row, lex being what polarity_scores
\* answers for each text
step2_columns(r, lex) == analyze(polarity_scores(lex[r.clean_text]))

\* the texts handed to analyze_batch without the secondary cleaning
roberta_texts_raw(d) == [k \in 1..Len(d) |-> d[k].clean_text]

\* Step 3: the texts handed to analyze_batch
roberta_texts(d) == [k \in 1..Len(d) |-> preprocess_for_roberta(d[k].clean_text)]

\* Step 4: final_label is set on the row, then final_score
step4_row(self_roberta, r) ==
    LET r1 == SetColumns(r, [final_label |-> _ensemble_label(self_roberta, r)])
    IN  SetColumns(r1, [final_score |-> _ensemble_score(self_roberta, r1)])

----------------------------------------------------------------------------
(* Bounds and input sets *)

MaxFrags == 4
CompoundSteps == 100
ProbSteps == 10
MaxRecords == 2
MaxTexts == 4
MaxBatch == 3

\* the default of the batch_size parameter of analyze_batch
batch_size_default == 32

CommonFrags ==
    { <<" ">>, <<"\n">>, <<"a">>, <<"&">>, <<";">>,
      <<"h", "t", "t">>, <<"p", ":", "/", "/">>, <<"w", "w">>, <<"w", ".">> }

PlatformFrags(p) ==
    IF p = "twitter" THEN { <<"R", "T">>, <<"r", "t">>, <<"@">>, <<"#">> }
    ELSE IF p = "reddit" THEN { <<"*">>, <<"_">> }
    ELSE IF p = "amazon"
    THEN { <<"V", "e", "r", "i", "f", "i", "e", "d">>,
           <<"P", "U", "R", "C", "H", "A", "S", "E">> }
    ELSE {}

RECURSIVE Flatten(_)
Flatten(fs) == IF fs = <<>> THEN <<>> ELSE Head(fs) \o Flatten(Tail(fs))

\* the texts of at most MaxFrags pieces, the pieces being those every
\* platform reacts to and those the rule of platform p reacts to
Texts(p) ==
    { Flatten(fs) :
        fs \in UNION { [1..n -> CommonFrags \cup PlatformFrags(p)] : n \in 0..MaxFrags } }

Platforms == {"twitter", "reddit", "amazon", "general", "news"}

Labels == {"positive", "negative", "neutral"}

\* the compounds -1, ..., 1 in steps of 1/CompoundSteps
Compounds == { Rat(k, CompoundSteps) : k \in -CompoundSteps..CompoundSteps }

\* the probability distributions over (negative, neutral, positive) in
\* steps of 1/ProbSteps
Distributions ==
    { [i \in 0..2 |-> Rat(t[i + 1], ProbSteps)] :
        t \in { u \in (0..ProbSteps) \X (0..ProbSteps) \X (0..ProbSteps) :
                    u[1] + u[2] + u[3] = ProbSteps } }

----------------------------------------------------------------------------
(* The values of the variables a specification does not use *)

PreIdle == text = PyNone /\ platform = "general" /\ outcome = Pending
VaderIdle == scores = polarity_scores(RatZero) /\ analysis = Pending
EnsIdle == row = <<>> /\ resolved = Pending
PipeIdle ==
    /\ roberta = "None" /\ warned = FALSE /\ pc = "unused"
    /\ input = <<>> /\ df = <<>> /\ lexicon = <<>> /\ weights = <<>>
    /\ construct = [use_roberta |-> FALSE, load_ok |-> FALSE]

RunIdle == history = <<>>

RedditIdle ==
    /\ limit = 0 /\ rows = 0 /\ after = "None" /\ status = "none"
    /\ collect_pc = "unused" /\ collected = -1

BatchIdle ==
    /\ texts = <<>> /\ batch_size = batch_size_default /\ batch_i = 0
    /\ results = <<>> /\ inferences = <<>>
    /\ batch = Pending /\ single = Pending

----------------------------------------------------------------------------
(* SpecPre: preprocess applied to every text and platform *)

PreInit ==
    /\ platform \in Platforms
    /\ text \in { PyStr(s) : s \in Texts(platform) } \cup {PyNone, PyNaN}
    /\ outcome = Pending
    /\ VaderIdle /\ EnsIdle /\ PipeIdle /\ BatchIdle /\ RunIdle /\ RedditIdle

Preprocess ==
    /\ outcome = Pending
    /\ outcome' = preprocess(text, platform)
    /\ UNCHANGED <<text, platform, vaderVars, ensVars, pipeVars, batchVars, runVars, redditVars>>

PreNext == Preprocess

SpecPre == PreInit /\ [][PreNext]_vars

----------------------------------------------------------------------------
(* SpecTok: preprocess_for_roberta applied to every text *)

\* pieces the token rules react to, and pieces the platform rules of
\* preprocess react to
TokFrags ==
    { <<" ">>, <<"\n">>, <<"a">>, <<"@">>, <<"h", "t", "t", "p">>,
      <<"h", "t", "t", "p", ":">>, <<"#">>, <<"R", "T">>, <<"*">> }

TokTexts ==
    { Flatten(fs) : fs \in UNION { [1..n -> TokFrags] : n \in 0..MaxFrags } }

TokInit ==
    /\ platform = "general"
    /\ text \in { PyStr(s) : s \in TokTexts }
    /\ outcome = Pending
    /\ VaderIdle /\ EnsIdle /\ PipeIdle /\ BatchIdle /\ RunIdle /\ RedditIdle

PreprocessForRoberta ==
    /\ outcome = Pending
    /\ outcome' = Return(preprocess_for_roberta(text.val))
    /\ UNCHANGED <<text, platform, vaderVars, ensVars, pipeVars, batchVars, runVars, redditVars>>

TokNext == PreprocessForRoberta

SpecTok == TokInit /\ [][TokNext]_vars

----------------------------------------------------------------------------
(* SpecVader: VaderAnalyzer.analyze applied to every compound *)

VaderInit ==
    /\ scores \in { polarity_scores(c) : c \in Compounds }
    /\ analysis = Pending
    /\ PreIdle /\ EnsIdle /\ PipeIdle /\ BatchIdle /\ RunIdle /\ RedditIdle

Analyze ==
    /\ analysis.kind = "pending"
    /\ analysis' = Return(analyze(scores))
    /\ UNCHANGED <<scores, preVars, ensVars, pipeVars, batchVars, runVars, redditVars>>

VaderNext == Analyze

SpecVader == VaderInit /\ [][VaderNext]_vars

----------------------------------------------------------------------------
(* SpecEns: the resolver applied to every row.  A row carries the lexical  *)
(* fields, and the contextual fields when the pipeline holds the scorer.   *)

LexicalRows ==
    { [vader_compound |-> c, vader_label |-> l] : c \in Compounds, l \in Labels }

ContextualFields ==
    { [roberta_label |-> l, roberta_positive |-> d[2], roberta_negative |-> d[0]] :
        l \in Labels, d \in Distributions }

EnsInit ==
    /\ roberta \in {"None", "loaded"}
    /\ row \in IF roberta = "None" THEN LexicalRows
               ELSE { SetColumns(r, f) : r \in LexicalRows, f \in ContextualFields }
    /\ resolved = Pending
    /\ warned = FALSE /\ pc = "unused"
    /\ input = <<>> /\ df = <<>> /\ lexicon = <<>> /\ weights = <<>>
    /\ construct = [use_roberta |-> roberta # "None", load_ok |-> TRUE]
    /\ PreIdle /\ VaderIdle /\ BatchIdle /\ RunIdle /\ RedditIdle

Resolve ==
    /\ resolved.kind = "pending"
    /\ resolved' = Return([ final_label |-> _ensemble_label(roberta, row),
                            final_score |-> _ensemble_score(roberta, row) ])
    /\ UNCHANGED <<row, preVars, vaderVars, pipeVars, batchVars, runVars, redditVars>>

EnsNext == Resolve

SpecEns == EnsInit /\ [][EnsNext]_vars

----------------------------------------------------------------------------
(* RobertaAnalyzer.analyze_batch, step by step: one step per inference     *)
(* call of the loop, then the return.  The steps are those of SpecBatch    *)
(* and, inside Step 3 of analyze_dataframe, of Spec.                       *)

\* what the frozen model may answer for a text
PipeDistributions ==
    { [k \in 0..2 |-> Rat(t[k + 1], 10)] : t \in {<<10, 0, 0>>, <<0, 0, 10>>, <<2, 5, 3>>} }

\* analyze_batch entered with the results of the call before kept
BatchEntry_keeps_results(ts, size) ==
    /\ texts' = ts
    /\ batch_size' = size
    /\ batch_i' = 0
    /\ results' = results
    /\ inferences' = <<>>
    /\ batch' = Pending

\* analyze_batch is entered: results = []
BatchEntry(ts, size) ==
    /\ texts' = ts
    /\ batch_size' = size
    /\ batch_i' = 0
    /\ results' = <<>>
    /\ inferences' = <<>>
    /\ batch' = Pending

\* one pass of the loop: the model is called with the next chunk and one
\* result per text of the chunk is appended
Chunk ==
    /\ batch = Pending
    /\ batch_i < Len(texts)
    /\ LET b == slice(texts, batch_i, batch_size)
           new == { b[k] : k \in 1..Len(b) } \ DOMAIN weights
       IN  \E f \in [new -> PipeDistributions] :
             /\ weights' = f @@ weights
             /\ inferences' = Append(inferences, b)
             /\ results' = results \o batch_results(b, weights')
    /\ batch_i' = batch_i + batch_size
    /\ UNCHANGED <<texts, batch_size, batch, single>>

\* one pass of the loop, the model raising: analyze_batch has no handler,
\* the exception leaves it and the results so far are dropped with it
ChunkRaise ==
    /\ batch = Pending
    /\ batch_i < Len(texts)
    /\ inferences' = Append(inferences, slice(texts, batch_i, batch_size))
    /\ batch' = Raise("RuntimeError")
    /\ UNCHANGED <<texts, batch_size, batch_i, results, single, weights>>

\* the loop is over: return results
BatchReturn ==
    /\ batch = Pending
    /\ batch_i >= Len(texts)
    /\ batch' = Return(results)
    /\ UNCHANGED <<texts, batch_size, batch_i, results, inferences, single, weights>>

----------------------------------------------------------------------------
(* SpecBatch: analyze_batch on every list of texts and every batch size,   *)
(* then analyze on one of the texts                                        *)

BatchTexts == { <<"a">>, <<"b">> }

\* what the frozen model may answer: clear cases and ties
BatchDistributions ==
    { [k \in 0..2 |-> Rat(t[k + 1], 10)] :
        t \in { <<10, 0, 0>>, <<0, 0, 10>>, <<2, 5, 3>>,
                <<5, 5, 0>>, <<4, 2, 4>>, <<0, 5, 5>> } }

outsideBatch ==
    <<preVars, vaderVars, ensVars, roberta, warned, pc, input, df, lexicon, construct,
      runVars, redditVars>>

BatchInit ==
    /\ texts \in UNION { [1..n -> BatchTexts] : n \in 0..MaxTexts }
    /\ batch_size \in 1..MaxBatch
    /\ weights \in [BatchTexts -> BatchDistributions]
    /\ batch_i = 0 /\ results = <<>> /\ inferences = <<>>
    /\ batch = Pending /\ single = Pending
    /\ roberta = "loaded" /\ warned = FALSE /\ pc = "unused"
    /\ input = <<>> /\ df = <<>> /\ lexicon = <<>>
    /\ construct = [use_roberta |-> TRUE, load_ok |-> TRUE]
    /\ PreIdle /\ VaderIdle /\ EnsIdle /\ RunIdle /\ RedditIdle

BatchChunk == Chunk /\ UNCHANGED outsideBatch

BatchChunkRaise == ChunkRaise /\ UNCHANGED outsideBatch

BatchReturned == BatchReturn /\ UNCHANGED outsideBatch

\* RobertaAnalyzer.analyze on one of the texts, after the batch call
AnalyzeSingle ==
    /\ batch.kind # "pending"
    /\ single = Pending
    /\ \E k \in 1..Len(texts) :
          single' = Return(roberta_analyze(texts[k], weights))
    /\ UNCHANGED <<texts, batch_size, batch_i, results, inferences, batch, weights>>
    /\ UNCHANGED outsideBatch

BatchNext ==
    \/ BatchChunk
    \/ BatchChunkRaise
    \/ BatchReturned
    \/ AnalyzeSingle

SpecBatch == BatchInit /\ [][BatchNext]_vars

----------------------------------------------------------------------------
(* Spec: one call of analyze_dataframe on a constructed pipeline *)

\* the texts of the records: None, NaN, a blank string, a mention
PipeTexts == {PyNone, PyNaN, PyStr(<<" ">>), PyStr(<<"@", "a">>)}

PipePlatforms == {"twitter", "general"}

\* what the lexical scorer may answer for a text
PipeCompounds == {Rat(-1, 1), Rat(-5, 100), RatZero, Rat(5, 100), RatOne}

\* the columns every collector returns
SCHEMA_COLUMNS == {"id", "text", "date", "author", "platform", "metadata"}

InputRow(i, t, p) ==
    [ id |-> i, text |-> t, date |-> "date", author |-> "author",
      platform |-> p, metadata |-> "metadata" ]

\* the DataFrames of 1 to MaxRecords records
DataFrames ==
    { [k \in 1..Len(c) |-> InputRow(k, c[k][1], c[k][2])] :
        c \in UNION { [1..m -> PipeTexts \X PipePlatforms] : m \in 1..MaxRecords } }

\* a DataFrame of one record more than a batch holds
LongFrame ==
    [k \in 1..(batch_size_default + 1) |-> InputRow(k, PyStr(<<"@", "a">>), "general")]

Init ==
    /\ construct \in [use_roberta : BOOLEAN, load_ok : BOOLEAN]
    /\ roberta = "None"
    /\ warned = FALSE
    /\ pc = "new"
    /\ input \in DataFrames \cup {LongFrame}
    /\ df = <<>>
    /\ lexicon = <<>>
    /\ weights = <<>>
    /\ PreIdle /\ VaderIdle /\ EnsIdle /\ BatchIdle /\ RunIdle /\ RedditIdle

\* what the caller holds after a write to the working frame d
caller_frame(d) == IF copy(input).is_new THEN input ELSE d

\* SentimentPipeline(use_roberta)
Construct ==
    /\ pc = "new"
    /\ LET self == __init__(construct.use_roberta, construct.load_ok)
       IN  /\ roberta' = self.roberta
           /\ warned' = self.warned
           /\ pc' = IF self.raised THEN "init_raised" ELSE "idle"
    /\ UNCHANGED <<construct, input, df, lexicon, weights,
                   preVars, vaderVars, ensVars, batchVars, runVars, redditVars>>

\* analyze_dataframe is called: df = df.copy()
Call ==
    /\ pc = "idle"
    /\ df' = copy(input).frame
    /\ pc' = "step1"
    /\ UNCHANGED <<construct, roberta, warned, input, lexicon, weights,
                   preVars, vaderVars, ensVars, batchVars, runVars, redditVars>>

\* Step 1: clean_text of every row
Step1 ==
    /\ pc = "step1"
    /\ IF \E k \in 1..Len(df) : step1_outcome(df[k]).kind = "raise"
       THEN pc' = "raised" /\ UNCHANGED df
       ELSE /\ df' = [k \in 1..Len(df) |-> SetColumns(df[k], step1_columns(df[k]))]
            /\ pc' = "step2"
    /\ input' = caller_frame(df')
    /\ UNCHANGED <<construct, roberta, warned, lexicon, weights,
                   preVars, vaderVars, ensVars, batchVars, runVars, redditVars>>

\* Step 2: the lexical columns of every row; polarity_scores answers 0.0
\* for the empty text
Step2 ==
    /\ pc = "step2"
    /\ LET new == { df[k].clean_text : k \in 1..Len(df) } \ DOMAIN lexicon
       IN  \E f \in [new -> PipeCompounds] :
             /\ \A t \in new : t = <<>> => f[t] = RatZero
             /\ lexicon' = f @@ lexicon
             /\ df' = [k \in 1..Len(df) |->
                         SetColumns(df[k], step2_columns(df[k], lexicon'))]
    /\ input' = caller_frame(df')
    /\ pc' = "step3"
    /\ UNCHANGED <<construct, roberta, warned, weights,
                   preVars, vaderVars, ensVars, batchVars, runVars, redditVars>>

outsideStep3 ==
    <<construct, roberta, warned, input, df, lexicon, preVars, vaderVars, ensVars,
      runVars, redditVars>>

\* Step 3 with the scorer: analyze_batch(roberta_texts) is called, with
\* the default batch size
Step3Roberta ==
    /\ pc = "step3"
    /\ roberta # "None"
    /\ BatchEntry(roberta_texts(df), batch_size_default)
    /\ pc' = "analyze_batch"
    /\ UNCHANGED <<single, weights>>
    /\ UNCHANGED outsideStep3

\* Step 3, inside analyze_batch: one pass of its loop
Step3Chunk ==
    /\ pc = "analyze_batch"
    /\ Chunk
    /\ UNCHANGED pc
    /\ UNCHANGED outsideStep3

\* Step 3, inside analyze_batch: an inference call raises
Step3Raise ==
    /\ pc = "analyze_batch"
    /\ ChunkRaise
    /\ pc' = step3_outcome(batch')
    /\ UNCHANGED outsideStep3

\* Step 3: analyze_batch returns and the contextual columns of every row
\* are set
Step3Attach ==
    /\ pc = "analyze_batch"
    /\ BatchReturn
    /\ df' = [k \in 1..Len(df) |-> SetColumns(df[k], results[k])]
    /\ input' = caller_frame(df')
    /\ pc' = step3_outcome(batch')
    /\ UNCHANGED <<construct, roberta, warned, lexicon, preVars, vaderVars, ensVars,
                   runVars, redditVars>>

\* Step 3 without the scorer
Step3Skip ==
    /\ pc = "step3"
    /\ roberta = "None"
    /\ pc' = "step4"
    /\ UNCHANGED <<construct, roberta, warned, input, df, lexicon, weights,
                   preVars, vaderVars, ensVars, batchVars, runVars, redditVars>>

\* Step 4: final_label and final_score of every row; df is returned
Step4 ==
    /\ pc = "step4"
    /\ df' = [k \in 1..Len(df) |-> step4_row(roberta, df[k])]
    /\ input' = caller_frame(df')
    /\ pc' = "returned"
    /\ UNCHANGED <<construct, roberta, warned, lexicon, weights,
                   preVars, vaderVars, ensVars, batchVars, runVars, redditVars>>

Next ==
    \/ Construct
    \/ Call
    \/ Step1
    \/ Step2
    \/ Step3Roberta
    \/ Step3Chunk
    \/ Step3Raise
    \/ Step3Attach
    \/ Step3Skip
    \/ Step4

Spec == Init /\ [][Next]_vars

----------------------------------------------------------------------------
(* SpecRuns: analyze_dataframe called again and again on the one pipeline  *)
(* the application keeps, on a new DataFrame each time.  What the lexical  *)
(* scorer and the frozen model answer for a text does not change between   *)
(* calls.                                                                  *)

MaxCalls == 2

\* DataFrames of one record: a blank text, a mention
RunFrames ==
    { <<InputRow(1, t, "general")>> : t \in {PyStr(<<" ">>), PyStr(<<"@", "a">>)} }

RunInit ==
    /\ construct \in [use_roberta : BOOLEAN, load_ok : BOOLEAN]
    /\ roberta = "None"
    /\ warned = FALSE
    /\ pc = "new"
    /\ input \in RunFrames
    /\ df = <<>>
    /\ lexicon = <<>>
    /\ weights = <<>>
    /\ history = <<>>
    /\ PreIdle /\ VaderIdle /\ EnsIdle /\ BatchIdle /\ RedditIdle

\* the call is over, with a DataFrame or an exception, and the application
\* calls analyze_dataframe of the same pipeline on another DataFrame
CallAgain ==
    /\ pc \in {"returned", "raised"}
    /\ Len(history) < MaxCalls
    /\ history' = Append(history,
                         [ input |-> input,
                           outcome |-> IF pc = "returned" THEN Return(df)
                                       ELSE Raise("RuntimeError") ])
    /\ input' \in RunFrames
    /\ df' = <<>>
    /\ pc' = "idle"
    /\ UNCHANGED <<construct, roberta, warned, lexicon, weights,
                   preVars, vaderVars, ensVars, batchVars, redditVars>>

RunsNext ==
    \/ Next
    \/ CallAgain

SpecRuns == RunInit /\ [][RunsNext]_vars

----------------------------------------------------------------------------
(* SpecReddit: RedditCollector.collect against a server that may answer    *)
(* each request with any status, any page of posts and any page token, or  *)
(* not at all.  rows is the length of the list rows.                       *)

MaxLimit == 4
MaxChildren == 3

RedditInit ==
    /\ limit \in 0..MaxLimit
    /\ rows = 0
    /\ after = "None"
    /\ status = "none"
    /\ collect_pc = "while"
    /\ collected = -1
    /\ PreIdle /\ VaderIdle /\ EnsIdle /\ PipeIdle /\ BatchIdle /\ RunIdle

outsideReddit == <<preVars, vaderVars, ensVars, pipeVars, batchVars, runVars>>

\* while len(rows) < limit
WhileTest ==
    /\ collect_pc = "while"
    /\ collect_pc' = IF rows < limit THEN "get" ELSE "after_loop"
    /\ UNCHANGED <<limit, rows, after, status, collected, outsideReddit>>

\* the server answers 429: the warning, time.sleep(10), continue
RateLimited ==
    /\ collect_pc = "get"
    /\ status' = "429"
    /\ collect_pc' = "while"
    /\ UNCHANGED <<limit, rows, after, collected, outsideReddit>>

\* the server answers a status that is neither 429 nor 200: break
BadStatus ==
    /\ collect_pc = "get"
    /\ status' \in {"403", "500"}
    /\ collect_pc' = "after_loop"
    /\ UNCHANGED <<limit, rows, after, collected, outsideReddit>>

\* the server answers 200 with no children: break
NoChildren ==
    /\ collect_pc = "get"
    /\ status' = "200"
    /\ collect_pc' = "after_loop"
    /\ UNCHANGED <<limit, rows, after, collected, outsideReddit>>

\* the server answers 200 with a page of posts, as many as it likes, and
\* a page token or none: one row is appended per post, then break when
\* there is no token, else time.sleep(1.5) and the next pass
Page ==
    /\ collect_pc = "get"
    /\ status' = "200"
    /\ \E n \in 1..MaxChildren, token \in {"None", "t3_a"} :
          /\ rows' = rows + n
          /\ after' = token
          /\ collect_pc' = IF token = "None" THEN "after_loop" ELSE "while"
    /\ UNCHANGED <<limit, collected, outsideReddit>>

\* requests.get raises a RequestException, a timeout after 15 s included:
\* break
RequestFailed ==
    /\ collect_pc = "get"
    /\ status' = "raised"
    /\ collect_pc' = "after_loop"
    /\ UNCHANGED <<limit, rows, after, collected, outsideReddit>>

\* after the loop: the DataFrame of rows[:limit] is returned
CollectReturn ==
    /\ collect_pc = "after_loop"
    /\ collected' = Min(rows, limit)
    /\ collect_pc' = "done"
    /\ UNCHANGED <<limit, rows, after, status, outsideReddit>>

RedditNext ==
    \/ WhileTest
    \/ RateLimited
    \/ BadStatus
    \/ NoChildren
    \/ Page
    \/ RequestFailed
    \/ CollectReturn

\* the call keeps running: a statement that can be executed is executed,
\* requests.get answers or raises within its timeout, time.sleep returns
SpecReddit == RedditInit /\ [][RedditNext]_vars /\ WF_vars(RedditNext)

----------------------------------------------------------------------------
(* Properties of preprocess, checked under SpecPre *)

Returned == outcome.kind = "return"

\* p occurs in s
Contains(s, p) == \E i \in 1..Len(s) : LiteralAt(s, i, p)

\* a text of whitespace only (the empty text included)
Blank(s) == \A i \in 1..Len(s) : IsSpace(s[i])

\* C6: for every text that is no string, or is empty or all whitespace,
\* and every platform, preprocess returns the empty string and does not raise
C6_MalformedGivesEmpty ==
    (outcome # Pending /\ (text.type # "str" \/ Blank(text.val)))
        => outcome = Return(<<>>)

C6_Witness ==
    /\ outcome = Return(<<>>)
    /\ platform = "news"
    /\ text \in {PyNone, PyStr(<<" ", "\n">>)}

\* every @ of r that word characters follow is followed by exactly "user"
NoRawHandle(r) ==
    \A i \in 1..Len(r) :
        (r[i] = "@" /\ WordRun(r, i + 1) >= 1)
            => SubSeq(r, i + 1, i + WordRun(r, i + 1)) = <<"u", "s", "e", "r">>

\* no # of r is immediately followed by a word character
NoHashtagMarker(r) ==
    \A i \in 1..Len(r) : r[i] = "#" => WordRun(r, i + 1) = 0

\* the word of every hashtag (# and the word characters after it) of s is in r
HashtagWordsKept(s, r) ==
    \A i \in 1..Len(s) :
        (s[i] = "#" /\ WordRun(s, i + 1) >= 1)
            => Contains(r, SubSeq(s, i + 1, i + WordRun(s, i + 1)))

\* C8 as claimed: for twitter and every text the result holds no raw handle
\* and no hashtag marker, and keeps the word of every hashtag of the input
C8_NoHandleNoMarker ==
    (Returned /\ platform = "twitter" /\ text.type = "str")
        => /\ NoRawHandle(outcome.val)
           /\ NoHashtagMarker(outcome.val)
           /\ HashtagWordsKept(text.val, outcome.val)

\* no # of s stands directly after @, # or a word character
HashtagsStandAlone(s) ==
    \A i \in 2..Len(s) :
        s[i] = "#" => ~(s[i - 1] \in {"@", "#"} \/ IsWord(s[i - 1]))

\* C8 amended: for twitter and every text in which no # directly follows
\* @, # or a word character, the result holds no raw handle and no hashtag
\* marker, and it keeps the word of every hashtag left after URL removal
C8_StandAloneHashtags ==
    (Returned /\ platform = "twitter" /\ text.type = "str"
        /\ HashtagsStandAlone(text.val))
        => /\ NoRawHandle(outcome.val)
           /\ NoHashtagMarker(outcome.val)
           /\ HashtagWordsKept(_URL_sub(_HTML_ENTITY_sub(text.val, 1), 1),
                               outcome.val)

C8_Witness ==
    /\ platform = "twitter"
    /\ text = PyStr(<<"#", "a", "@", "a">>)
    /\ outcome = Return(<<"a", "@", "u", "s", "e", "r">>)

\* r begins with RT, in any letter case, and a space
BeginsWithRT(r) ==
    /\ Len(r) >= 3
    /\ r[1] \in {"R", "r"}
    /\ r[2] \in {"T", "t"}
    /\ r[3] = " "

\* C9 as claimed: for twitter and every text the result does not begin
\* with the retweet marker RT and a space
C9_NeverBeginsWithRT ==
    (Returned /\ platform = "twitter") => ~BeginsWithRT(outcome.val)

\* s begins with RT, in any letter case, and whitespace
BeginsWithMarker(s) ==
    /\ Len(s) >= 3
    /\ s[1] \in {"R", "r"}
    /\ s[2] \in {"T", "t"}
    /\ IsSpace(s[3])

\* the twitter cleaning without the retweet step
CleanKeepingRT(s) ==
    strip(_WHITESPACE_sub(
        _HASHTAG_sub(_MENTION_sub(_URL_sub(_HTML_ENTITY_sub(s, 1), 1), 1), 1), 1))

\* C9 amended: for twitter and every text that begins with RT (any case)
\* and whitespace, that one leading marker is removed: the result is the
\* cleaning of what follows the marker, with no further retweet stripping
C9_OneLeadingMarkerRemoved ==
    (Returned /\ platform = "twitter" /\ text.type = "str"
        /\ BeginsWithMarker(text.val))
        => outcome.val = CleanKeepingRT(From(text.val, 3))

C9_Witness ==
    /\ platform = "twitter"
    /\ text = PyStr(<<"r", "t", " ", "@", "a">>)
    /\ outcome = Return(<<"@", "u", "s", "e", "r">>)

\* a URL start of r at i that a non-space character follows
UrlAt(r, i) ==
    \/ /\ LiteralAt(r, i, <<"h", "t", "t", "p", ":", "/", "/">>)
       /\ i + 7 <= Len(r) /\ r[i + 7] # " "
    \/ /\ LiteralAt(r, i, <<"h", "t", "t", "p", "s", ":", "/", "/">>)
       /\ i + 8 <= Len(r) /\ r[i + 8] # " "
    \/ /\ LiteralAt(r, i, <<"w", "w", "w", ".">>)
       /\ i + 4 <= Len(r) /\ r[i + 4] # " "

NoUrl(r) == \A i \in 1..Len(r) : ~UrlAt(r, i)

\* s is one URL and nothing else: a URL start, then characters that are
\* neither whitespace nor part of an entity
IsOneUrl(s) ==
    /\ UrlAt(s, 1)
    /\ \A i \in 1..Len(s) : ~IsSpace(s[i]) /\ s[i] # "&"

\* no placeholder: a text that is one URL is cleaned to the empty string
NoPlaceholder(s, r) == IsOneUrl(s) => r = <<>>

NothingToJoin(s, p) ==
    IF p = "twitter" THEN ~Contains(s, <<"#">>)
    ELSE IF p = "reddit" THEN \A i \in 1..Len(s) : ~IsMarkdown(s[i])
    ELSE IF p = "amazon"
    THEN \A i \in 1..Len(s) :
            ~LiteralAtIgnoreCase(s, i, <<"V", "e", "r", "i", "f", "i", "e", "d", " ",
                                         "P", "u", "r", "c", "h", "a", "s", "e">>)
    ELSE TRUE

NoMarkdown(r) == \A i \in 1..Len(r) : ~IsMarkdown(r[i])

\* r is words separated by single spaces: no whitespace but the space, no
\* space at either end, no two spaces in a row
SingleSpaced(r) ==
    /\ \A i \in 1..Len(r) : IsSpace(r[i]) => r[i] = " "
    /\ r # <<>> => r[1] # " " /\ r[Len(r)] # " "
    /\ \A i \in 1..Len(r) - 1 : ~(r[i] = " " /\ r[i + 1] = " ")

\* s with every markdown character deleted
RECURSIVE DelMarkdown(_)
DelMarkdown(s) ==
    IF s = <<>> THEN <<>>
    ELSE IF IsMarkdown(Head(s)) THEN DelMarkdown(Tail(s))
    ELSE <<Head(s)>> \o DelMarkdown(Tail(s))

NonEmpty(w) == w # <<>>

\* the words of s: its whitespace-separated tokens with the markdown
\* characters deleted, the tokens that were markdown only left out
Words(s) ==
    SelectSeq([k \in 1..Len(split(s)) |-> DelMarkdown(split(s)[k])], NonEmpty)

\* C11: for reddit and every text the result holds no markdown character,
\* and the words left after entity and URL removal keep their order,
\* separated by single spaces
C11_NoMarkdownWordsInOrder ==
    (Returned /\ platform = "reddit" /\ text.type = "str")
        => LET t2 == _URL_sub(_HTML_ENTITY_sub(text.val, 1), 1)
               r == outcome.val
           IN  /\ NoMarkdown(r)
               /\ SingleSpaced(r)
               /\ split(r) = Words(t2)

\* "*a", a newline and "a" give "a a"
C11_Witness ==
    /\ platform = "reddit"
    /\ text = PyStr(<<"*", "a", "\n", "a">>)
    /\ outcome = Return(<<"a", " ", "a">>)

VerifiedWord == <<"v", "e", "r", "i", "f", "i", "e", "d">>

SpacePurchase == <<" ", "p", "u", "r", "c", "h", "a", "s", "e">>

\* the phrase Verified Purchase, in any letter case, stands in s at i
PhraseAt(s, i) == LiteralAtIgnoreCase(s, i, VerifiedWord \o SpacePurchase)

NoPhrase(r) == \A i \in 1..Len(r) : ~PhraseAt(r, i)

\* C12 as claimed: for amazon and every text the result holds no
\* occurrence of the phrase Verified Purchase in any letter case
C12_NoVerifiedPurchase ==
    (Returned /\ platform = "amazon") => NoPhrase(outcome.val)

\* the word verified stands in s only as the start of the phrase, and the
\* phrase only at the start of s or after whitespace
PhraseStandsAlone(s) ==
    \A i \in 1..Len(s) :
        LiteralAtIgnoreCase(s, i, VerifiedWord)
            => PhraseAt(s, i) /\ (i = 1 \/ IsSpace(s[i - 1]))

\* C12 amended: for amazon and every text in which the word verified (any
\* case) occurs only directly followed by one space and purchase, and that
\* phrase only at the start of the text or after whitespace, the result
\* holds no occurrence of the phrase in any letter case
C12_StandAlonePhraseRemoved ==
    (Returned /\ platform = "amazon" /\ text.type = "str"
        /\ PhraseStandsAlone(text.val))
        => NoPhrase(outcome.val)

\* "Verified PURCHASEa" gives "a"
C12_Witness ==
    /\ platform = "amazon"
    /\ text = PyStr(<<"V", "e", "r", "i", "f", "i", "e", "d", " ",
                      "P", "U", "R", "C", "H", "A", "S", "E", "a">>)
    /\ outcome = Return(<<"a">>)

----------------------------------------------------------------------------
(* Properties of preprocess_for_roberta, checked under SpecTok *)

\* what the claim says a token becomes
TokenRule(token) ==
    IF Head(token) = "@" /\ Len(token) > 1 THEN <<"@", "u", "s", "e", "r">>
    ELSE IF Len(token) >= 4 /\ SubSeq(token, 1, 4) = <<"h", "t", "t", "p">>
    THEN <<"h", "t", "t", "p">>
    ELSE token

\* C13: the whitespace-separated tokens of the input are mapped one to one
\* and in order: a token starting with @ and longer than one character
\* becomes @user, otherwise a token starting with http becomes http, every
\* other token (a lone @, RT, a hashtag, markdown) is unchanged; the result
\* is these tokens joined by single spaces
C13_TokensMappedInOrder ==
    Returned
        => LET tokens == split(text.val)
               r == outcome.val
           IN  /\ SingleSpaced(r)
               /\ Len(split(r)) = Len(tokens)
               /\ \A k \in 1..Len(tokens) : split(r)[k] = TokenRule(tokens[k])

\* "@a http:" gives "@user http"
C13_Witness ==
    /\ text = PyStr(<<"@", "a", " ", "h", "t", "t", "p", ":">>)
    /\ outcome = Return(<<"@", "u", "s", "e", "r", " ", "h", "t", "t", "p">>)

----------------------------------------------------------------------------
(* Properties of the resolver, checked under SpecEns *)

Resolved == resolved.kind = "return"

\* the row carries a contextual result and the pipeline holds the scorer
ContextualPresent ==
    roberta # "None" /\ {"roberta_label", "roberta_positive"} \subseteq DOMAIN row

\* C1: for every row with a contextual result the resolver returns the
\* contextual label: the shared label when the two labels agree, and the
\* contextual label, never the lexical one, when they differ
C1_ContextualLabelWins ==
    (Resolved /\ ContextualPresent)
        => /\ resolved.val.final_label = row.roberta_label
           /\ row.vader_label # row.roberta_label
                => resolved.val.final_label # row.vader_label

C1_Witness ==
    /\ Resolved /\ ContextualPresent
    /\ row.vader_label = "positive"
    /\ row.roberta_label = "negative"
    /\ resolved.val.final_label = "negative"

\* C3: for every row with a contextual result final_score is
\* 0.3 * (compound + 1) / 2 + 0.7 * ((positive - negative) + 1) / 2,
\* which for compound c, positive p and negative q, each a fraction n/d, is
\* (3 (c.n + c.d) p.d q.d + 7 (p.n q.d - q.n p.d + p.d q.d) c.d)
\*     / (20 c.d p.d q.d)
C3_BlendedScore ==
    (Resolved /\ ContextualPresent)
        => LET c == row.vader_compound
               p == row.roberta_positive
               q == row.roberta_negative
           IN  resolved.val.final_score
                 = Rat( 3 * (c.n + c.d) * p.d * q.d
                          + 7 * (p.n * q.d - q.n * p.d + p.d * q.d) * c.d,
                        20 * c.d * p.d * q.d )

\* compound 0.5, positive 0.7, negative 0.1: 0.3 * 0.75 + 0.7 * 0.8 = 0.785
C3_Witness ==
    /\ Resolved /\ ContextualPresent
    /\ row.vader_compound = [n |-> 1, d |-> 2]
    /\ row.roberta_positive = [n |-> 7, d |-> 10]
    /\ row.roberta_negative = [n |-> 1, d |-> 10]
    /\ resolved.val.final_score = [n |-> 157, d |-> 200]

----------------------------------------------------------------------------
(* Properties of VaderAnalyzer.analyze, checked under SpecVader *)

\* C5: compound >= 0.05 gives positive, compound <= -0.05 gives negative,
\* every compound strictly between gives neutral, the two thresholds
\* included; stated on the numerator and denominator of the compound
C5_InclusiveThresholds ==
    analysis.kind = "return"
        => LET c == scores.compound
               l == analysis.val.vader_label
           IN  /\ l \in Labels
               /\ 20 * c.n >= c.d => l = "positive"
               /\ 20 * c.n <= -c.d => l = "negative"
               /\ (-c.d < 20 * c.n /\ 20 * c.n < c.d) => l = "neutral"

\* the compound 0.05 itself is positive
C5_Witness ==
    /\ analysis.kind = "return"
    /\ scores.compound = [n |-> 1, d |-> 20]
    /\ analysis.val.vader_label = "positive"

----------------------------------------------------------------------------
(* Properties of analyze_dataframe, checked under Spec *)

\* C2: when the pipeline holds no contextual scorer, every returned record
\* has final_label equal to vader_label and final_score equal to
\* (vader_compound + 1) / 2
C2_LexicalOnlyResult ==
    (pc = "returned" /\ roberta = "None")
        => \A k \in 1..Len(df) :
              /\ df[k].final_label = df[k].vader_label
              /\ df[k].final_score.n * 2 * df[k].vader_compound.d
                   = df[k].final_score.d
                       * (df[k].vader_compound.n + df[k].vader_compound.d)

\* a record with compound 0.05: positive, score 0.525
C2_Witness ==
    /\ pc = "returned" /\ roberta = "None"
    /\ \E k \in 1..Len(df) :
          /\ df[k].vader_compound = [n |-> 1, d |-> 20]
          /\ df[k].final_label = "positive"
          /\ df[k].final_score = [n |-> 21, d |-> 40]

\* C4: every returned record, with or without the contextual scorer, has
\* final_label in {positive, negative, neutral} and final_score in [0, 1]
C4_LabelAndScoreRange ==
    pc = "returned"
        => \A k \in 1..Len(df) :
              /\ df[k].final_label \in Labels
              /\ 0 <= df[k].final_score.n
              /\ df[k].final_score.n <= df[k].final_score.d

\* both ends of the range in one contextual run: score 0 and score 1
C4_Witness ==
    /\ pc = "returned" /\ roberta = "loaded"
    /\ \E k \in 1..Len(df) : df[k].final_score = [n |-> 0, d |-> 1]
    /\ \E k \in 1..Len(df) : df[k].final_score = [n |-> 1, d |-> 1]

\* the text of a record is null, not a string, or blank
Malformed(t) == t.type # "str" \/ Blank(t.val)

\* C7 as claimed: every record whose text is malformed gets the empty
\* clean_text, and step 1 does not raise
C7_MalformedCleansToEmpty ==
    /\ pc \in {"step2", "step3", "step4", "returned"}
          => \A k \in 1..Len(df) :
                Malformed(input[k].text) => df[k].clean_text = <<>>
    /\ pc = "raised" => roberta # "None"

\* the columns of a contextual result
ContextualColumns ==
    { "roberta_label", "roberta_score", "roberta_positive",
      "roberta_negative", "roberta_neutral" }

NoContextualColumns(r) == DOMAIN r \cap ContextualColumns = {}

AllContextualColumns(r) == ContextualColumns \subseteq DOMAIN r

\* final_label is the lexical label and final_score is (compound + 1) / 2
FollowsLexicalRule(r) ==
    /\ r.final_label = r.vader_label
    /\ r.final_score.n * 2 * r.vader_compound.d
         = r.final_score.d * (r.vader_compound.n + r.vader_compound.d)

\* the scorer was asked for and RobertaAnalyzer() raised
LoadFailed == construct.use_roberta /\ ~construct.load_ok

C15_ContextualAllOrNone ==
    pc = "returned"
        => IF batch.kind = "return"
           THEN \A k \in 1..Len(df) : AllContextualColumns(df[k])
           ELSE \A k \in 1..Len(df) : NoContextualColumns(df[k])

C15_Witness ==
    /\ pc = "returned" /\ batch.kind = "return"
    /\ Len(df) = 2
    /\ df[1].roberta_label = "negative"
    /\ df[2].roberta_label = "positive"

\* C16 as claimed: when an inference call raises, analyze_dataframe goes on
\* in lexical-only mode: it does not raise, and the collection it returns
\* has no contextual columns and follows the lexical-only rule
C16_DegradesOnInferenceError ==
    batch.kind = "raise"
        => /\ pc \in {"step4", "returned"}
           /\ pc = "returned"
                => \A k \in 1..Len(df) :
                      NoContextualColumns(df[k]) /\ FollowsLexicalRule(df[k])

\* C16 amended: when an inference call raises, neither analyze_batch nor
\* analyze_dataframe catches the exception: it reaches the caller, no
\* collection is returned, and the pipeline still holds its scorer
C16_InferenceErrorPropagates ==
    batch.kind = "raise"
        => /\ pc = "raised"
           /\ roberta = "loaded"
           /\ batch.exc = "RuntimeError"

C16_Witness ==
    /\ batch = Raise("RuntimeError")
    /\ pc = "raised"
    /\ Len(input) = 2
    /\ inferences = <<roberta_texts(df)>>

\* C17: a step never changes the collection of the caller; and once an
\* inference call has raised, on whatever chunk, the call has raised and
\* stays so (no collection is returned) and no record carries a contextual
\* column, the results of the chunks scored before being dropped
C17_InferenceFailureFailsRun ==
    [][ /\ input' = input
        /\ batch'.kind = "raise"
             => /\ pc' = "raised"
                /\ \A k \in 1..Len(df') : NoContextualColumns(df'[k])
                /\ \A k \in 1..Len(input') : NoContextualColumns(input'[k])
        /\ pc = "raised" => pc' = "raised" ]_vars

\* the second chunk of a frame of batch_size + 1 records fails after the
\* first chunk was scored
C17_Witness ==
    /\ pc = "raised"
    /\ Len(df) = batch_size_default + 1
    /\ Len(results) = batch_size_default
    /\ Len(inferences) = 2
    /\ \A k \in 1..Len(df) : NoContextualColumns(df[k])

----------------------------------------------------------------------------
(* Properties of RobertaAnalyzer, checked under SpecBatch *)

\* ceil(n / size)
CeilDiv(n, size) == (n + size - 1) \div size

\* C18: the model is called with consecutive chunks of the texts in input
\* order, each of batch_size texts but possibly the last; when
\* analyze_batch returns, it has made ceil(N / batch_size) calls (none for
\* N = 0) and returns N results, result k holding the probabilities the
\* model gives text k
C18_ChunksInOrder ==
    LET N == Len(texts)
    IN  /\ \A c \in 1..Len(inferences) :
              /\ (c - 1) * batch_size < N
              /\ Len(inferences[c]) = Min(batch_size, N - (c - 1) * batch_size)
              /\ \A k \in 1..Len(inferences[c]) :
                    inferences[c][k] = texts[(c - 1) * batch_size + k]
        /\ batch.kind = "return"
              => /\ Len(inferences) = CeilDiv(N, batch_size)
                 /\ Len(batch.val) = N
                 /\ \A k \in 1..N :
                       /\ batch.val[k].roberta_negative = weights[texts[k]][0]
                       /\ batch.val[k].roberta_neutral = weights[texts[k]][1]
                       /\ batch.val[k].roberta_positive = weights[texts[k]][2]

\* four texts in chunks of three: two calls, the second with one text
C18_Witness ==
    /\ batch.kind = "return"
    /\ batch_size = 3
    /\ texts = << <<"a">>, <<"b">>, <<"b">>, <<"a">> >>
    /\ inferences = << << <<"a">>, <<"b">>, <<"b">> >>, << <<"a">> >> >>
    /\ weights[<<"a">>] # weights[<<"b">>]
    /\ Len(batch.val) = 4

\* a contextual result is consistent with its distribution
Consistent(r) ==
    LET probabilities == {r.roberta_negative, r.roberta_neutral, r.roberta_positive}
    IN  /\ r.roberta_score \in probabilities
        /\ \A q \in probabilities : RatLeq(q, r.roberta_score)
        /\ r.roberta_label \in Labels
        /\ r.roberta_label = "positive" => r.roberta_positive = r.roberta_score
        /\ r.roberta_label = "negative" => r.roberta_negative = r.roberta_score
        /\ r.roberta_label = "neutral" => r.roberta_neutral = r.roberta_score

\* C20: in every result of analyze_batch and of analyze, roberta_score is
\* the maximum of the three probabilities and roberta_label names the
\* class whose probability is that maximum
C20_LabelAndScoreFromDistribution ==
    /\ \A k \in 1..Len(results) : Consistent(results[k])
    /\ single.kind = "return" => Consistent(single.val)

\* the clear case 0.2, 0.5, 0.3 in the batch, the tie 0.4, 0.2, 0.4 alone
C20_Witness ==
    /\ batch.kind = "return"
    /\ \E k \in 1..Len(results) :
          /\ results[k].roberta_label = "neutral"
          /\ results[k].roberta_score = [n |-> 1, d |-> 2]
    /\ single.kind = "return"
    /\ single.val.roberta_label = "negative"
    /\ single.val.roberta_score = [n |-> 2, d |-> 5]
    /\ single.val.roberta_positive = [n |-> 2, d |-> 5]

----------------------------------------------------------------------------
(* Properties of analyze_dataframe: the frame, independence, the stages *)

\* the columns analyze_dataframe adds in every run
LexicalRunColumns ==
    { "clean_text", "vader_compound", "vader_positive", "vader_negative",
      "vader_neutral", "vader_label", "final_label", "final_score" }

ScoredAlone(t, p, self_roberta, lex, w) ==
    LET clean_text == preprocess(PyStr(str(t)), p).val
        lexical == analyze(polarity_scores(lex[clean_text]))
        contextual == IF self_roberta # "None"
                      THEN roberta_result(w[preprocess_for_roberta(clean_text)])
                      ELSE <<>>
        scored == contextual @@ lexical @@ [clean_text |-> clean_text]
    IN  [ final_label |-> _ensemble_label(self_roberta, scored),
          final_score |-> _ensemble_score(self_roberta, scored) ] @@ scored

\* the derived fields of a returned record
Derived(r) == [c \in DOMAIN r \ SCHEMA_COLUMNS |-> r[c]]

----------------------------------------------------------------------------
(* The label and the score of the resolver, checked under SpecEns *)

\* C23: final_label is a function of the labels only, the contextual label
\* when the row carries one and the lexical label otherwise, whatever the
\* compound and the class probabilities of the row; final_score does not
\* decide it, so a positive label may come with a score at or below 0.5
C23_LabelFromLabelsOnly ==
    Resolved
        => resolved.val.final_label
             = (IF ContextualPresent THEN row.roberta_label ELSE row.vader_label)

\* compound -1, positive 0.4, negative 0.3, contextual label positive:
\* final_label positive with final_score 0.3 * 0 + 0.7 * 0.55 = 0.385
C23_Witness ==
    /\ Resolved /\ ContextualPresent
    /\ row.vader_label = "negative"
    /\ row.vader_compound = [n |-> -1, d |-> 1]
    /\ row.roberta_label = "positive"
    /\ row.roberta_positive = [n |-> 2, d |-> 5]
    /\ row.roberta_negative = [n |-> 3, d |-> 10]
    /\ resolved.val.final_label = "positive"
    /\ resolved.val.final_score = [n |-> 77, d |-> 200]
    /\ 2 * resolved.val.final_score.n <= resolved.val.final_score.d

----------------------------------------------------------------------------
(* The order of the stages of analyze_dataframe, checked under Spec *)

LexicalColumns ==
    { "vader_compound", "vader_positive", "vader_negative", "vader_neutral",
      "vader_label" }

Preprocessed(r) == "clean_text" \in DOMAIN r

LexicallyScored(r) == LexicalColumns \subseteq DOMAIN r

FinalResolved(r) == DOMAIN r \cap {"final_label", "final_score"} # {}

\* analyze_batch has been called in this run
ContextualStarted == pc = "analyze_batch" \/ inferences # <<>>

\* C24: within a run every record is preprocessed before any record is
\* lexically scored; every record is lexically scored before contextual
\* scoring starts; analyze_batch receives the secondary-cleaned clean_text
\* of every record, in order; and when the pipeline holds the scorer no
\* record has final_label or final_score before analyze_batch has returned
\* with every chunk inferred and every record carries its contextual columns
C24_StagesInOrder ==
    /\ (\E k \in 1..Len(df) : DOMAIN df[k] \cap LexicalColumns # {})
           => \A k \in 1..Len(df) : Preprocessed(df[k])
    /\ ContextualStarted
           => /\ \A k \in 1..Len(df) : LexicallyScored(df[k])
              /\ Len(texts) = Len(df)
              /\ \A k \in 1..Len(df) :
                    texts[k] = preprocess_for_roberta(df[k].clean_text)
    /\ pc = "analyze_batch"
           => \A k \in 1..Len(df) :
                 NoContextualColumns(df[k]) /\ ~FinalResolved(df[k])
    /\ ((\E k \in 1..Len(df) : FinalResolved(df[k])) /\ roberta # "None")
           => /\ batch.kind = "return"
              /\ Flatten(inferences) = texts
              /\ \A k \in 1..Len(df) : AllContextualColumns(df[k])
    /\ (\E k \in 1..Len(df) : FinalResolved(df[k]))
           => \A k \in 1..Len(df) : LexicallyScored(df[k])

\* a run of two records, the first a mention whose secondary cleaning
\* differs from its clean_text, resolved after the one chunk was inferred
C24_Witness ==
    /\ pc = "returned" /\ roberta = "loaded"
    /\ Len(df) = 2
    /\ df[1].platform = "general"
    /\ df[1].clean_text = <<"@", "a">>
    /\ df[2].clean_text = <<>>
    /\ texts = << <<"@", "u", "s", "e", "r">>, <<>> >>
    /\ inferences = << texts >>
    /\ FinalResolved(df[1]) /\ FinalResolved(df[2])

----------------------------------------------------------------------------
(* Repeated calls on one pipeline, checked under SpecRuns *)

\* the DataFrame a call on d returns when nothing but d, the mode of the
\* pipeline and the frozen scorers decides it
RunOutput(d) ==
    [k \in 1..Len(d) |->
        ScoredAlone(d[k].text, d[k].platform, roberta, lexicon, weights) @@ d[k]]

ReturnedCalls == { c \in DOMAIN history : history[c].outcome.kind = "return" }

\* C25: through every sequence of calls, those ending in an inference error
\* included, the pipeline holds the scorer exactly when construction gave
\* it one; every call that returns returns what its own input decides,
\* whatever the calls before; and two calls with the same input that
\* return give the same DataFrame
C25_RunsShareNothing ==
    /\ pc \notin {"new", "init_raised"}
          => (roberta # "None") = (construct.use_roberta /\ construct.load_ok)
    /\ pc = "returned" => df = RunOutput(input)
    /\ \A c \in ReturnedCalls : history[c].outcome.val = RunOutput(history[c].input)
    /\ \A c \in ReturnedCalls :
          (pc = "returned" /\ history[c].input = input) => history[c].outcome.val = df
    /\ \A c, e \in ReturnedCalls :
          history[c].input = history[e].input
              => history[c].outcome.val = history[e].outcome.val

\* a call on a blank text, a call on a mention ending in an inference
\* error, then the call on the mention repeated and returning, with
\* contextual results that differ between the two texts
C25_Witness ==
    /\ pc = "returned" /\ roberta = "loaded"
    /\ Len(history) = 2
    /\ history[1].outcome.kind = "return"
    /\ history[1].input[1].text = PyStr(<<" ">>)
    /\ history[2].outcome.kind = "raise"
    /\ history[2].input = input
    /\ input[1].text = PyStr(<<"@", "a">>)
    /\ df[1].roberta_label # history[1].outcome.val[1].roberta_label
    /\ "final_label" \in DOMAIN df[1]

----------------------------------------------------------------------------
(* preprocess applied to its own result, checked under SpecPre *)

\* cleaning the result of the call again, for the same platform, gives the
\* result again
CleanAgainSame == preprocess(PyStr(outcome.val), platform) = outcome

\* C26 as claimed: for twitter, reddit, amazon and general and every text,
\* preprocess applied to its own result returns that result
C26_Idempotent ==
    (Returned /\ platform \in {"twitter", "reddit", "amazon", "general"})
        => CleanAgainSame

\* the text holds nothing the rule of the platform reacts to, bar handles:
\* for twitter no # and no rt in any letter case, for reddit no markdown
\* character, for amazon no word verified in any letter case
RuleLeavesAlone(s, p) ==
    CASE p = "twitter" ->
            /\ ~Contains(s, <<"#">>)
            /\ \A i \in 1..Len(s) : ~LiteralAtIgnoreCase(s, i, <<"r", "t">>)
      [] p = "reddit" -> NoMarkdown(s)
      [] p = "amazon" -> \A i \in 1..Len(s) : ~LiteralAtIgnoreCase(s, i, VerifiedWord)
      [] OTHER -> TRUE

\* C26 as amended: preprocess applied to its own result returns that result
\* for general and every platform without a rule, for every text, and for
\* twitter, reddit and amazon for every text that holds nothing the rule
\* of the platform reacts to
C26_IdempotentWhereRuleLeavesAlone ==
    (Returned /\ text.type = "str" /\ RuleLeavesAlone(text.val, platform))
        => CleanAgainSame

\* a handle and a line break on twitter: the first cleaning
\* changes the text and the second changes nothing more
C26_Witness ==
    /\ Returned /\ platform = "twitter"
    /\ text = PyStr(<<"@", "a", "\n", "a">>)
    /\ RuleLeavesAlone(text.val, platform)
    /\ outcome = Return(<<"@", "u", "s", "e", "r", " ", "a">>)
    /\ CleanAgainSame

----------------------------------------------------------------------------
(* Termination of RedditCollector.collect, checked under SpecReddit *)

\* C27: for every sequence of server responses collect returns, and what
\* it returns holds at most limit rows
C27_CollectTerminates ==
    /\ <>(collect_pc = "done")
    /\ [](collect_pc = "done" => collected <= limit)

====
